---------------------------- MODULE Spec2Model ----------------------------
(***************************************************************************)
(* A model of the TED scraper back ends (src/backup/app.py, src/app.py,    *)
(* src/app/app.py, src/app_до_грока.py): the expert-query builder, the     *)
(* multilingual field extraction, the normalisation of the upstream        *)
(* response, the health handlers, the task store and the route tables.     *)
(*                                                                         *)
(* A Python string is a sequence of chunks: a chunk is one character of    *)
(* user input (" ", ",", "-", a quote, a parenthesis, a letter) or one     *)
(* word of a literal of the code ("notice-title", "AND", ">=").  String    *)
(* concatenation is \o, the empty string is << >>.                         *)
(***************************************************************************)
EXTENDS Integers, Sequences, FiniteSets, TLC

VARIABLES
    rev,            \* which revision of the service runs (one source file each)
    pc,             \* position of the handler
    filters,        \* request.filters
    query_terms,    \* the clauses emitted so far (query_terms / query_parts)
    expert_query,   \* the query string sent upstream
    field_value,    \* argument of extract_multilang_field
    default,        \* its default placeholder
    result,         \* what it returns
    request,        \* page and page size of the inbound search request
    payload,        \* the outbound request
    calls,          \* outbound calls made for the request
    upstream,       \* what the external API answered
    response,       \* what the handler answers
    lax,            \* the validation library converts numbers to str (pydantic 1)
    health,         \* what the health handler answers
    processing_tasks, \* the module-level dictionary of src/app.py
    reply,          \* what a task route answers
    http_request,   \* method and path of a request being dispatched
    handled_by      \* the route the dispatch selected

queryVars == <<filters, query_terms, expert_query>>

extractVars == <<field_value, default, result>>

handlerVars == <<request, payload, calls, upstream, response, lax>>

serviceVars == <<health, processing_tasks, reply, http_request, handled_by>>

vars == <<rev, pc, queryVars, extractVars, handlerVars, serviceVars>>

---------------------------------------------------------------------------
(* Bounds of the model                                                     *)

MaxCountryLen == 3
MaxTextLen == 2
MaxListLen == 2
MaxKeys == 2
MaxRecords == 2

---------------------------------------------------------------------------
(* Python values                                                           *)

\* Optional[str]: None, or a string
None == [none |-> TRUE, s |-> << >>]

Some(s) == [none |-> FALSE, s |-> s]

\* truth value of an Optional[str] in `if x:`
Truthy(o) == (~o.none) /\ o.s # << >>

\* all sequences over alphabet A of length at most n
SeqsUpTo(A, n) == UNION {[1..k -> A] : k \in 0..n}

IsSpace(c) == c = " "

\* str.strip(): drop leading and trailing whitespace
RECURSIVE LStrip(_)
LStrip(s) ==
    IF s = << >> THEN << >>
    ELSE IF IsSpace(Head(s)) THEN LStrip(Tail(s))
    ELSE s

RECURSIVE RStrip(_)
RStrip(s) ==
    IF s = << >> THEN << >>
    ELSE IF IsSpace(s[Len(s)]) THEN RStrip(SubSeq(s, 1, Len(s) - 1))
    ELSE s

Strip(s) == RStrip(LStrip(s))

\* str.upper(), character by character
UpperChar(c) ==
    CASE c = "d" -> "D"
      [] c = "f" -> "F"
      [] c = "a" -> "A"
      [] c = "b" -> "B"
      [] OTHER -> c

Upper(s) == [i \in 1..Len(s) |-> UpperChar(s[i])]

\* str.split(sep) for a one-character separator: always at least one piece
RECURSIVE SplitFrom(_, _, _)
SplitFrom(s, sep, cur) ==
    IF s = << >> THEN <<cur>>
    ELSE IF Head(s) = sep THEN <<cur>> \o SplitFrom(Tail(s), sep, << >>)
    ELSE SplitFrom(Tail(s), sep, Append(cur, Head(s)))

Split(s, sep) == SplitFrom(s, sep, << >>)

\* str.replace(old, "") for a one-character old
RECURSIVE Remove(_, _)
Remove(s, old) ==
    IF s = << >> THEN << >>
    ELSE IF Head(s) = old THEN Remove(Tail(s), old)
    ELSE <<Head(s)>> \o Remove(Tail(s), old)

\* sep.join(parts)
RECURSIVE Join(_, _)
Join(parts, sep) ==
    IF parts = << >> THEN << >>
    ELSE IF Len(parts) = 1 THEN parts[1]
    ELSE parts[1] \o sep \o Join(Tail(parts), sep)

\* [f(x) for x in xs if p(x)] building blocks
RECURSIVE SelectNonEmptyStripped(_)
SelectNonEmptyStripped(parts) ==
    IF parts = << >> THEN << >>
    ELSE IF Strip(Head(parts)) # << >>
         THEN <<Upper(Strip(Head(parts)))>> \o SelectNonEmptyStripped(Tail(parts))
         ELSE SelectNonEmptyStripped(Tail(parts))

---------------------------------------------------------------------------
(* Literals of the expert query grammar                                    *)

Q == "\""

AND == <<" ", "AND", " ">>

OR == <<" ", "OR", " ">>

get_historical_broad_mut_wildcard == <<"*">>

get_historical_broad == <<"(", "publication-date", " ", ">=", " ", "19930101", ")">>


---------------------------------------------------------------------------
(* Query builder of src/backup/app.py (search_notices, lines 125-163)      *)

\* f'(notice-title ~ "{text}" OR buyer-name ~ "{text}")'
TextTermMutUnquoted(text) ==
    <<"(", "notice-title", " ", "~", " ">> \o text
        \o OR \o <<"buyer-name", " ", "~", " ">> \o text \o <<")">>

TextTerm(text) ==
    <<"(", "notice-title", " ", "~", " ", Q>> \o text \o <<Q>>
        \o OR \o <<"buyer-name", " ", "~", " ", Q>> \o text \o <<Q, ")">>

\* [c.strip().upper() for c in country.split(",") if c.strip()]
CountryCodesMutKeepEmpty(country) ==
    LET parts == Split(country, ",")
    IN  [i \in 1..Len(parts) |-> Upper(Strip(parts[i]))]

CountryCodes(country) == SelectNonEmptyStripped(Split(country, ","))

\* f"(buyer-country = {c})"
CountryEq(c) == <<"(", "buyer-country", " ", "=", " ">> \o c \o <<")">>

CountryTerm(countries) ==
    IF Len(countries) = 1
    THEN CountryEq(countries[1])
    ELSE <<"(">> \o Join([i \in 1..Len(countries) |-> CountryEq(countries[i])], OR)
             \o <<")">>

\* f"(publication-date >= {from_date})", f"(publication-date <= {to_date})"
DateTerm(op, d) == <<"(", "publication-date", " ", op, " ">> \o d \o <<")">>

\* the clauses appended to query_terms, in the order of the code
BackupTextTerms(f) ==
    IF Truthy(f.text) THEN <<TextTerm(Strip(f.text.s))>> ELSE << >>

BackupCountryTerms(f) ==
    IF Truthy(f.country) /\ CountryCodes(f.country.s) # << >>
    THEN <<CountryTerm(CountryCodes(f.country.s))>>
    ELSE << >>

BackupDateTerms(o, op) ==
    IF Truthy(o) /\ Remove(o.s, "-") # << >>
    THEN <<DateTerm(op, Remove(o.s, "-"))>>
    ELSE << >>

BackupQueryTerms(f) ==
    IF ~f.present THEN << >>
    ELSE BackupTextTerms(f) \o BackupCountryTerms(f)
            \o BackupDateTerms(f.publication_date_from, ">=")
            \o BackupDateTerms(f.publication_date_to, "<=")

BackupExpertQuery(terms) ==
    IF terms = << >> THEN get_historical_broad ELSE Join(terms, AND)

---------------------------------------------------------------------------
(* Query builder of src/app/app.py (search_notices_impl, lines 95-108)     *)

ImplQueryParts(f) ==
    IF ~f.present THEN << >>
    ELSE (IF Truthy(f.text) THEN <<(<<"(">> \o f.text.s \o <<")">>)>> ELSE << >>)
      \o (IF Truthy(f.country)
          THEN <<(<<"country-of-buyer", ":">> \o Upper(f.country.s))>>
          ELSE << >>)
      \o (IF Truthy(f.publication_date_from)
          THEN <<(<<"publication-date", ">=">>
                    \o Remove(f.publication_date_from.s, "-"))>>
          ELSE << >>)
      \o (IF Truthy(f.publication_date_to)
          THEN <<(<<"publication-date", "<=">>
                    \o Remove(f.publication_date_to.s, "-"))>>
          ELSE << >>)

ImplExpertQuery(parts) ==
    IF parts # << >> THEN Join(parts, AND) ELSE <<"*">>

---------------------------------------------------------------------------
(* Query builder of src/app.py (build_ted_query, lines 168-195)            *)

\* " OR ".join([f"({x})" for x in xs])
OrOfParenthesized(xs) ==
    Join([i \in 1..Len(xs) |-> <<"(">> \o xs[i] \o <<")">>], OR)

TedQueryParts(f) ==
       (IF Truthy(f.text) THEN <<f.text.s>> ELSE << >>)
    \o (IF Truthy(f.cpv_codes)
        THEN <<(<<"cpv-code", ":">> \o OrOfParenthesized(f.cpv_codes.s))>>
        ELSE << >>)
    \o (IF Truthy(f.buyer_countries)
        THEN <<(<<"place-of-performance", ":">>
                  \o OrOfParenthesized(f.buyer_countries.s))>>
        ELSE << >>)
    \o (IF Truthy(f.publication_date_from)
        THEN <<(<<"publication-date", ":", "[">>
                  \o f.publication_date_from.s \o <<"]">>)>>
        ELSE << >>)
    \o (IF Truthy(f.publication_date_to)
        THEN <<(<<"publication-date", ":", "[", "*", "+", "TO", "+">>
                  \o f.publication_date_to.s \o <<"]">>)>>
        ELSE << >>)

build_ted_query_parts(f) ==
    IF TedQueryParts(f) = << >> THEN <<<<"*">>>> ELSE TedQueryParts(f)

build_ted_query(f) == Join(build_ted_query_parts(f), AND)

---------------------------------------------------------------------------
(* JSON values of the upstream response, as Python objects                 *)

Str(str) == [tag |-> "str", s |-> str, n |-> 0, items |-> << >>, keys |-> << >>]

\* an integer
Num(i) == [tag |-> "num", s |-> "", n |-> i, items |-> << >>, keys |-> << >>]

\* null, and what dict.get returns for an absent key
Null == [tag |-> "null", s |-> "", n |-> 0, items |-> << >>, keys |-> << >>]

List(xs) == [tag |-> "list", s |-> "", n |-> 0, items |-> xs, keys |-> << >>]

\* a mapping with keys ks in iteration order and values xs
Dict(ks, xs) == [tag |-> "dict", s |-> "", n |-> 0, items |-> xs, keys |-> ks]

HasKey(d, k) == \E i \in 1..Len(d.keys) : d.keys[i] = k

\* d[k]
Lookup(d, k) == d.items[CHOOSE i \in 1..Len(d.keys) : d.keys[i] = k]

\* d.get(k, dflt) and d.get(k) of a mapping d
GetOr(d, k, dflt) == IF HasKey(d, k) THEN Lookup(d, k) ELSE dflt

Get(d, k) == GetOr(d, k, Null)

\* the truth value of x in `x or y`, `if x`
Truth(x) ==
    CASE x.tag = "str" -> x.s # ""
      [] x.tag = "num" -> x.n # 0
      [] x.tag = "null" -> FALSE
      [] x.tag = "list" -> x.items # << >>
      [] x.tag = "dict" -> x.keys # << >>

\* repr(x), the text str() gives for a list or a mapping
RECURSIVE Repr(_)
RECURSIVE ReprItems(_)
RECURSIVE ReprEntries(_, _)
Repr(x) ==
    CASE x.tag = "str" -> "'" \o x.s \o "'"
      [] x.tag = "num" -> ToString(x.n)
      [] x.tag = "null" -> "None"
      [] x.tag = "list" -> "[" \o ReprItems(x.items) \o "]"
      [] x.tag = "dict" -> "{" \o ReprEntries(x.keys, x.items) \o "}"

ReprItems(xs) ==
    IF xs = << >> THEN ""
    ELSE IF Len(xs) = 1 THEN Repr(xs[1])
    ELSE Repr(xs[1]) \o ", " \o ReprItems(Tail(xs))

ReprEntries(ks, xs) ==
    IF ks = << >> THEN ""
    ELSE IF Len(ks) = 1 THEN "'" \o ks[1] \o "': " \o Repr(xs[1])
    ELSE "'" \o ks[1] \o "': " \o Repr(xs[1]) \o ", "
            \o ReprEntries(Tail(ks), Tail(xs))

\* str(x)
PyStr(x) == IF x.tag = "str" THEN x.s ELSE Repr(x)

---------------------------------------------------------------------------
(* extract_multilang_field of src/backup/app.py (lines 85-119)             *)

PREFERRED_LANGS_mut_fra_first == <<"fra", "deu", "eng">>

PREFERRED_LANGS == <<"eng", "deu", "fra">>

\* isinstance(val, list) and val, or isinstance(val, str)
Returnable(val) == (val.tag = "list" /\ val.items # << >>) \/ val.tag = "str"

\* return val[0] for a list, return val for a string
Returned(val) == IF val.tag = "list" THEN val.items[1] ELSE val

\* the first loop (lines 101-107): the preferred languages in order
RECURSIVE PreferredLoop(_, _)
PreferredLoop(d, langs) ==
    IF langs = << >> THEN << >>
    ELSE IF HasKey(d, Head(langs)) /\ Returnable(Lookup(d, Head(langs)))
    THEN <<Returned(Lookup(d, Head(langs)))>>
    ELSE PreferredLoop(d, Tail(langs))

\* the second loop (lines 109-113): the values in iteration order
RECURSIVE ValuesLoop(_)
ValuesLoop(vals) ==
    IF vals = << >> THEN << >>
    ELSE IF Returnable(Head(vals)) THEN <<Returned(Head(vals))>>
    ELSE ValuesLoop(Tail(vals))

extract_multilang_field(fv, dflt) ==
    IF fv.tag = "str" THEN fv
    ELSE IF fv.tag = "dict" /\ PreferredLoop(fv, PREFERRED_LANGS) # << >>
    THEN PreferredLoop(fv, PREFERRED_LANGS)[1]
    ELSE IF fv.tag = "dict" /\ ValuesLoop(fv.items) # << >>
    THEN ValuesLoop(fv.items)[1]
    ELSE IF fv.tag = "list" /\ fv.items # << >>
    THEN (IF fv.items[1].tag = "str" THEN fv.items[1] ELSE Str(PyStr(fv.items[1])))
    ELSE Str(dflt)

---------------------------------------------------------------------------
(* Raw field values                                                         *)

Langs == {"eng", "deu", "fra", "ita"}

Leaves == {Str("Road repair"), Str("Reparation"), Num(5), Null}

\* lists of leaves
LeafLists == {List(xs) : xs \in SeqsUpTo(Leaves, MaxListLen)}

\* what a language maps to
DictVals ==
    Leaves
    \cup {List(<< >>), List(<<Str("Road repair")>>), List(<<Str("Reparation")>>), List(<<Num(5)>>),
          List(<<List(<<Str("Road repair")>>)>>), Dict(<<"eng">>, <<Str("Road repair")>>)}

\* key sequences without repetition
KeySeqs == {ks \in SeqsUpTo(Langs, MaxKeys) : \A i, j \in 1..Len(ks) : i # j => ks[i] # ks[j]}

Dicts == UNION {{Dict(ks, xs) : xs \in [1..Len(ks) -> DictVals]} : ks \in KeySeqs}

\* lists whose first element is itself a list or a mapping
NestedLists ==
    {List(<<x>>) : x \in LeafLists}
    \cup {List(<<Dict(<<k>>, <<v>>)>>) : k \in {"eng", "ita"}, v \in DictVals}

RawValues == Leaves \cup LeafLists \cup Dicts \cup NestedLists

Defaults == {"N/A", "No title"}

IdleExtract ==
    /\ field_value = Null
    /\ default = ""
    /\ result = Null

---------------------------------------------------------------------------
(* Construction of the response models (pydantic)                          *)

\* a value a str field accepts: a string, and a number when numbers are converted
ValidStr(v, cv) == v.tag = "str" \/ (v.tag = "num" /\ cv)

\* Optional[str]
ValidOptStr(v, cv) == v.tag = "null" \/ ValidStr(v, cv)

\* Optional[List[str]]
ValidOptStrList(v, cv) ==
    \/ v.tag = "null"
    \/ v.tag = "list" /\ \A i \in 1..Len(v.items) : ValidStr(v.items[i], cv)

\* the field as the model stores it
Stored(v) ==
    CASE v.tag = "num" -> Str(ToString(v.n))
      [] v.tag = "list" ->
            List([i \in 1..Len(v.items) |->
                    IF v.items[i].tag = "num" THEN Str(ToString(v.items[i].n))
                    ELSE v.items[i]])
      [] OTHER -> v

\* Notice of src/backup/app.py (56-61) and src/app/app.py (44-49); NoticeItem
\* of src/app.py (92-104) has notice_type, cpv_codes and url as well
NoticeOf(pn, date, title, buyer, country, ntype, cpv, url) ==
    [publication_number |-> Stored(pn), publication_date |-> Stored(date),
     title |-> Stored(title), buyer |-> Stored(buyer), country |-> Stored(country),
     notice_type |-> Stored(ntype), cpv_codes |-> Stored(cpv), url |-> url]

\* the constructor raises ValidationError unless every field validates
NoticeValid(pn, date, title, buyer, country, ntype, cpv, cv) ==
    /\ ValidStr(pn, cv)
    /\ ValidOptStr(date, cv)
    /\ ValidOptStr(title, cv)
    /\ ValidOptStr(buyer, cv)
    /\ ValidOptStr(country, cv)
    /\ ValidOptStr(ntype, cv)
    /\ ValidOptStrList(cpv, cv)

---------------------------------------------------------------------------
(* Normalisation in src/backup/app.py (search_notices, lines 196-223)      *)

\* data.get("notices", [])
BackupRecords(data) == GetOr(data, "notices", List(<< >>))

\* data.get("total", len(notices_data))
BackupTotal(data) == GetOr(data, "total", Num(Len(BackupRecords(data).items)))

\* lines 207-219: the Notice of one item; << >> when an exception is raised
\* (item.get on a record that is no object, or a field the model rejects)
BackupNotice(item, cv) ==
    IF item.tag # "dict" THEN << >>
    ELSE LET pn == GetOr(item, "publication-number", Str("N/A"))
             date == Get(item, "publication-date")
             title == extract_multilang_field(Get(item, "notice-title"), "No title")
             buyer == extract_multilang_field(Get(item, "buyer-name"), "Unknown buyer")
             country == extract_multilang_field(Get(item, "buyer-country"), "Unknown")
         IN  IF NoticeValid(pn, date, title, buyer, country, Null, Null, cv)
             THEN <<NoticeOf(pn, date, title, buyer, country, Null, Null, Null)>>
             ELSE << >>

---------------------------------------------------------------------------
(* Normalisation in src/app.py (parse_ted_response, lines 198-238)         *)

\* notice.get(k) or notice.get(k, {}).get("value", "N/A"); << >> when the
\* second get is applied to a value that is no mapping
ValueOrNA(notice, k) ==
    LET a == Get(notice, k)
    IN  IF Truth(a) THEN <<a>>
        ELSE IF ~HasKey(notice, k) THEN <<Str("N/A")>>
        ELSE IF a.tag = "dict" THEN <<GetOr(a, "value", Str("N/A"))>>
        ELSE << >>

\* lines 215-219 and 227
CpvCodes(notice) ==
    LET cpv == GetOr(notice, "cpv-code", List(<< >>))
        aslist == IF cpv.tag = "str" THEN List(<<cpv>>)
                  ELSE IF cpv.tag # "list" THEN List(<< >>)
                  ELSE cpv
    IN  IF Truth(aslist) THEN aslist ELSE Null

\* line 229
NoticeUrl(pn) ==
    IF pn # Str("N/A")
    THEN Str("https://ted.europa.eu/en/notice/" \o PyStr(pn))
    ELSE Null

\* lines 206-236: the NoticeItem of one record; << >> when the record is skipped
MainNotice(notice, cv) ==
    IF notice.tag # "dict" THEN << >>
    ELSE LET pn == GetOr(notice, "publication-number", Str("N/A"))
             title == ValueOrNA(notice, "notice-title")
             buyer == ValueOrNA(notice, "buyer-name")
             country == ValueOrNA(notice, "place-of-performance")
             date == Get(notice, "publication-date")
             ntype == Get(notice, "notice-type")
         IN  IF title = << >> \/ buyer = << >> \/ country = << >> THEN << >>
             ELSE IF NoticeValid(pn, date, title[1], buyer[1], country[1], ntype,
                                 CpvCodes(notice), cv)
             THEN <<NoticeOf(pn, date, title[1], buyer[1], country[1], ntype,
                             CpvCodes(notice), NoticeUrl(pn))>>
             ELSE << >>

\* data.get("results", [])
MainRecords(data) == GetOr(data, "results", List(<< >>))

\* src/app.py:369 and src/app/app.py:136: data.get("total", 0)
TotalOrZero(data) == GetOr(data, "total", Num(0))

---------------------------------------------------------------------------
(* Normalisation in src/app/app.py (search_notices_impl, lines 135-152)    *)

\* x.get(k) or y: the first operand when it is true, the second otherwise
OrElse(a, b) == IF Truth(a) THEN a ELSE b

\* lines 141-148: the Notice of one item; << >> when an exception is raised
ImplNotice(item, cv) ==
    IF item.tag # "dict" THEN << >>
    ELSE LET content == GetOr(item, "CONTENT", Dict(<< >>, << >>))
         IN  IF content.tag # "dict" THEN << >>
             ELSE LET buyerobj == GetOr(content, "buyer", Dict(<< >>, << >>))
                      needbuyer == ~Truth(Get(content, "buyerName"))
                                      \/ ~Truth(Get(content, "country"))
                  IN  IF needbuyer /\ buyerobj.tag # "dict" THEN << >>
                      ELSE LET pn == GetOr(content, "publicationNumber",
                                           Str(PyStr(GetOr(item, "id", Str("")))))
                               date == Get(content, "publicationDate")
                               title == OrElse(Get(content, "title"),
                                               GetOr(content, "shortTitle", Str("No title")))
                               buyer == OrElse(Get(content, "buyerName"),
                                               GetOr(buyerobj, "name", Str("Unknown buyer")))
                               country == OrElse(Get(content, "country"),
                                                 GetOr(buyerobj, "countryCode", Str("Unknown")))
                           IN  IF NoticeValid(pn, date, title, buyer, country, Null, Null, cv)
                               THEN <<NoticeOf(pn, date, title, buyer, country,
                                               Null, Null, Null)>>
                               ELSE << >>

---------------------------------------------------------------------------
(* Normalisation in src/app_до_грока.py (parse_notices, lines 128-157)     *)

\* line 137: "number" in key.lower() or "id" in key.lower(), over the keys the
\* records of the model carry
IdentifierKey(k) == k \in {"publication-number", "id"}

\* lines 135-139: the value under the first key that names an identifier, None
\* when there is no such key
RECURSIVE FirstIdentifier(_, _)
FirstIdentifier(ks, xs) ==
    IF ks = << >> THEN Null
    ELSE IF IdentifierKey(Head(ks)) THEN Head(xs)
    ELSE FirstIdentifier(Tail(ks), Tail(xs))

\* lines 133-155: the Notice of one item; << >> when the item is skipped
\* (item.keys() on a record that is no object raises)
GrokNotice(item) ==
    IF item.tag # "dict" THEN << >>
    ELSE LET found == FirstIdentifier(item.keys, item.items)
             pub_num == IF Truth(found) THEN found
                        ELSE IF Truth(item) THEN item.items[1]
                        ELSE Str("N/A")
         IN  <<NoticeOf(Str(PyStr(pub_num)), Null, Null, Null, Null, Null, Null, Null)>>

---------------------------------------------------------------------------
(* The answer of the search handlers                                       *)

NoResponse == [status |-> 0, total |-> 0, total_pages |-> 0, notices |-> << >>]

\* HTTPException(status_code=code)
ErrorResponse(code) == [status |-> code, total |-> 0, total_pages |-> 0, notices |-> << >>]

\* SearchResponse(total=..., notices=...), answered with status 200
Success(total, pages, notices) ==
    [status |-> 200, total |-> total, total_pages |-> pages, notices |-> notices]

RECURSIVE FlattenMutReversed(_)
FlattenMutReversed(seqs) ==
    IF seqs = << >> THEN << >> ELSE FlattenMutReversed(Tail(seqs)) \o Head(seqs)

\* notices.append(notice) in the order of the loop
RECURSIVE Flatten(_)
Flatten(seqs) == IF seqs = << >> THEN << >> ELSE Head(seqs) \o Flatten(Tail(seqs))

\* src/backup/app.py, lines 196-230, for a 200 answer with JSON body data: an
\* exception anywhere (data or an item that is no object, a rejected field)
\* reaches `except Exception` and becomes status 500
BackupNormalize(data, cv) ==
    IF data.tag # "dict" THEN ErrorResponse(500)
    ELSE LET items == BackupRecords(data).items
             per == [i \in 1..Len(items) |-> BackupNotice(items[i], cv)]
             total == BackupTotal(data)
         IN  IF \E i \in 1..Len(items) : per[i] = << >> THEN ErrorResponse(500)
             ELSE IF total.tag # "num" THEN ErrorResponse(500)
             ELSE Success(total.n, 0, Flatten(per))

\* src/app/app.py, lines 135-159, for a 200 answer with JSON body data
ImplNormalize(data, cv) ==
    IF data.tag # "dict" THEN ErrorResponse(500)
    ELSE LET items == MainRecords(data).items
             per == [i \in 1..Len(items) |-> ImplNotice(items[i], cv)]
             total == TotalOrZero(data)
         IN  IF \E i \in 1..Len(items) : per[i] = << >> THEN ErrorResponse(500)
             ELSE IF total.tag # "num" THEN ErrorResponse(500)
             ELSE Success(total.n, 0, Flatten(per))

\* src/app.py: call_ted_api (278-292) returns data or raises 500 when data is no
\* object; parse_ted_response skips the records that raise; search (366-380)
MainNormalize(data, cv, page_size) ==
    IF data.tag # "dict" THEN ErrorResponse(500)
    ELSE LET items == MainRecords(data).items
             per == [i \in 1..Len(items) |-> MainNotice(items[i], cv)]
             total == TotalOrZero(data)
         IN  IF total.tag # "num" THEN ErrorResponse(500)
             ELSE Success(total.n, (total.n + page_size - 1) \div page_size, Flatten(per))

\* src/app_до_грока.py: search_ted_api (118-125) returns data or raises when data
\* is no object; parse_notices skips the items that raise; search (203-213)
\* answers 502 for every exception
GrokNormalize(data) ==
    IF data.tag # "dict" THEN ErrorResponse(502)
    ELSE LET items == MainRecords(data).items
             per == [i \in 1..Len(items) |-> GrokNotice(items[i])]
             total == TotalOrZero(data)
         IN  IF total.tag # "num" THEN ErrorResponse(502)
             ELSE Success(total.n, 0, Flatten(per))

---------------------------------------------------------------------------
(* Upstream answers                                                        *)

RecPlain ==
    Dict(<<"publication-number", "publication-date", "notice-title", "buyer-name",
           "buyer-country", "place-of-performance">>,
         <<Str("1-2025"), Str("2025-09-30+02:00"), Str("Road repair"), Str("City"),
           Str("DEU"), Str("DEU")>>)

RecMultilang ==
    Dict(<<"publication-number", "publication-date", "notice-title", "buyer-name",
           "buyer-country">>,
         <<Str("2-2025"), Str("2025-09-30"),
           Dict(<<"fra", "eng">>, <<List(<<Str("Reparation")>>), List(<<Str("Road repair")>>)>>),
           Dict(<<"deu">>, <<List(<<Str("Stadt")>>)>>), List(<<Str("DEU")>>)>>)

RecMissing == Dict(<<"publication-number">>, <<Str("3-2025")>>)

RecNested ==
    Dict(<<"publication-number", "notice-title">>,
         <<Str("4-2025"), Dict(<<"eng">>, <<List(<<List(<<Str("Road repair")>>)>>)>>)>>)

RecNumber ==
    Dict(<<"publication-number", "notice-title", "buyer-name">>,
         <<Str("5-2025"), Num(5), Dict(<<"eng">>, <<List(<<Num(5)>>)>>)>>)

RecNullNumber ==
    Dict(<<"publication-number", "notice-title">>, <<Null, Str("Road repair")>>)

RecNotObject == Str("oops")

RecContent ==
    Dict(<<"id", "CONTENT">>,
         <<Num(9), Dict(<<"publicationNumber", "publicationDate", "title">>,
                        <<Str("6-2025"), Str("2025-09-30+02:00"), Str("Road repair")>>)>>)

RecordInputs ==
    {RecPlain, RecMultilang, RecMissing, RecNested, RecNumber, RecNullNumber,
     RecNotObject, RecContent}

Batches == SeqsUpTo(RecordInputs, MaxRecords)

\* the reported match count, when the body has one
TotalInputs == {0, 7}

\* a body with the records under the keys ks, without and with a total
BodyOf(ks, batch) == Dict(ks, [i \in 1..Len(ks) |-> List(batch)])

BodyWithTotal(ks, batch, t) ==
    Dict(ks \o <<"total">>, [i \in 1..(Len(ks) + 1) |-> IF i <= Len(ks) THEN List(batch) ELSE Num(t)])

KeyLayouts == {<< >>, <<"notices">>, <<"results">>, <<"notices", "results">>}

Bodies ==
    {BodyOf(ks, b) : ks \in KeyLayouts, b \in Batches}
    \cup {BodyWithTotal(ks, b, t) : ks \in KeyLayouts, b \in Batches, t \in TotalInputs}
    \cup {List(<< >>)}

ErrorStatuses == {404, 500}

NoUpstream == [kind |-> "none", status |-> 0, body |-> Null]

NoPayload == [query |-> << >>, page |-> 0, limit |-> 0]

IdleHandler ==
    /\ request = [page |-> 0, limit |-> 0]
    /\ payload = NoPayload
    /\ calls = 0
    /\ upstream = NoUpstream
    /\ response = NoResponse
    /\ lax = FALSE

\* GET /health has not answered: {"status": ..., ...} is kept as kind "body",
\* an exception that leaves the handler as kind "error"
NoHealth == [kind |-> "none", status |-> "", ted_api_available |-> FALSE]

\* src/app.py:162: processing_tasks = {}, a function from task ids to tasks
NoTasks == [id \in {} |-> ""]

\* the answer of a task route: its status code and the fields of its body
TaskReply(code, kind, id, st, type, counts) ==
    [status |-> code, kind |-> kind, task_id |-> id, task_status |-> st,
     task_type |-> type, statistics |-> counts]

NoStatistics ==
    [total_tasks |-> 0, completed |-> 0, failed |-> 0, pending |-> 0, success_rate |-> 0]

NoReply == TaskReply(0, "none", "", "", "", NoStatistics)

NoHttpRequest == [method |-> "", path |-> << >>]

NoRoute == [name |-> "", outcome |-> "none", index |-> 0]

IdleService ==
    /\ health = NoHealth
    /\ processing_tasks = NoTasks
    /\ reply = NoReply
    /\ http_request = NoHttpRequest
    /\ handled_by = NoRoute

---------------------------------------------------------------------------
(* Inputs of the query builders                                            *)

\* Filters of src/backup/app.py and src/app/app.py (lines 43-47, 33-37); the
\* list fields exist in SearchFilters of src/app.py only
Filters(t, c, df, dt) ==
    [present |-> TRUE, text |-> t, country |-> c,
     publication_date_from |-> df, publication_date_to |-> dt,
     cpv_codes |-> None, buyer_countries |-> None]

\* SearchFilters of src/app.py (lines 68-78): full_text is field text here; the
\* dates are date objects, written by an f-string as YYYY-MM-DD
SearchFilters(t, cpv, bc, df, dt) ==
    [present |-> TRUE, text |-> t, country |-> None,
     publication_date_from |-> df, publication_date_to |-> dt,
     cpv_codes |-> cpv, buyer_countries |-> bc]

\* request.filters is None
NoFilters == [present |-> FALSE, text |-> None, country |-> None,
              publication_date_from |-> None, publication_date_to |-> None,
              cpv_codes |-> None, buyer_countries |-> None]

Opt(S) == {None} \cup {Some(s) : s \in S}

TextChars == {"a", " ", Q, "(", ")", "AND"}

CountryChars == {"d", "F", ",", " "}

IsoDate == <<"2024", "-", "01", "-", "01">>

\* text that closes the quoted phrase and the clause, and opens another clause
InjectedText == <<"x", Q, ")", " ", "AND", " ", "(", "y", " ", "~", " ", Q, "z">>

TextInputs == Opt(SeqsUpTo(TextChars, MaxTextLen) \cup {<<"a", " ", "b">>, InjectedText})

TextSmall == {None, Some(<<"a">>), Some(<<"a", " ", "b">>)}

CountryInputs == Opt(SeqsUpTo(CountryChars, MaxCountryLen))

CountrySmall == {None, Some(<<"d">>), Some(<<"d", ",", "F">>)}

DateInputs == Opt({<< >>, <<"-">>, <<"-", "-">>, IsoDate})

DateSmall == {None, Some(IsoDate)}

CodeLists == Opt({<< >>, <<<<"45">>>>, <<<<"45">>, <<"71">>>>})

CountryLists == Opt({<< >>, <<<<"DEU">>>>, <<<<"DEU">>, <<"FRA">>>>})

SearchFilterInputs ==
    {SearchFilters(t, None, None, df, dt) :
        t \in TextInputs, df \in DateSmall, dt \in DateSmall}
    \cup {SearchFilters(t, cpv, bc, df, dt) :
            t \in TextSmall, cpv \in CodeLists, bc \in CountryLists,
            df \in DateSmall, dt \in DateSmall}

FilterInputs ==
    {NoFilters}
    \cup {Filters(t, c, df, dt) :
            t \in {None, Some(<< >>), Some(<<" ">>)},
            c \in {None, Some(<< >>), Some(<<",", " ">>)},
            df \in DateInputs, dt \in DateInputs}
    \cup {Filters(t, c, df, dt) :
            t \in TextInputs, c \in CountrySmall, df \in DateSmall, dt \in DateSmall}
    \cup {Filters(t, c, df, dt) :
            t \in TextSmall, c \in CountryInputs, df \in DateSmall, dt \in DateSmall}
    \cup {Filters(t, c, df, dt) :
            t \in TextSmall, c \in CountrySmall, df \in DateInputs, dt \in DateInputs}

---------------------------------------------------------------------------
(* The query-building step of the search handlers                          *)

InitQuery ==
    /\ rev \in {"backup", "impl", "main"}
    /\ pc = "start"
    /\ filters \in (IF rev = "main" THEN SearchFilterInputs ELSE FilterInputs)
    /\ query_terms = << >>
    /\ expert_query = << >>
    /\ IdleExtract
    /\ IdleHandler
    /\ IdleService

\* src/backup/app.py search_notices, lines 125-163
BuildBackup ==
    /\ pc = "start"
    /\ rev = "backup"
    /\ query_terms' = BackupQueryTerms(filters)
    /\ expert_query' = BackupExpertQuery(BackupQueryTerms(filters))
    /\ pc' = "built"
    /\ UNCHANGED <<serviceVars, rev, filters, extractVars, handlerVars>>

\* src/app/app.py search_notices_impl, lines 95-108
BuildImpl ==
    /\ pc = "start"
    /\ rev = "impl"
    /\ query_terms' = ImplQueryParts(filters)
    /\ expert_query' = ImplExpertQuery(ImplQueryParts(filters))
    /\ pc' = "built"
    /\ UNCHANGED <<serviceVars, rev, filters, extractVars, handlerVars>>

\* src/app.py build_ted_query, lines 168-195
BuildTed ==
    /\ pc = "start"
    /\ rev = "main"
    /\ query_terms' = build_ted_query_parts(filters)
    /\ expert_query' = build_ted_query(filters)
    /\ pc' = "built"
    /\ UNCHANGED <<serviceVars, rev, filters, extractVars, handlerVars>>

NextQuery == BuildBackup \/ BuildImpl \/ BuildTed

SpecQuery == InitQuery /\ [][NextQuery]_vars

IdleQuery ==
    /\ filters = NoFilters
    /\ query_terms = << >>
    /\ expert_query = << >>

---------------------------------------------------------------------------
(* extract_multilang_field applied to one raw value                        *)

InitExtract ==
    /\ rev = "backup"
    /\ pc = "start"
    /\ field_value \in RawValues
    /\ default \in Defaults
    /\ result = Null
    /\ IdleQuery
    /\ IdleHandler
    /\ IdleService

\* src/backup/app.py extract_multilang_field, lines 85-119
Extract ==
    /\ pc = "start"
    /\ result' = extract_multilang_field(field_value, default)
    /\ pc' = "returned"
    /\ UNCHANGED <<serviceVars, rev, field_value, default, queryVars, handlerVars>>

NextExtract == Extract

SpecExtract == InitExtract /\ [][NextExtract]_vars

---------------------------------------------------------------------------
(* The search handlers: one inbound request, the outbound call, the answer *)

Max(a, b) == IF a >= b THEN a ELSE b

Min(a, b) == IF a <= b THEN a ELSE b

\* SearchRequest of src/backup/app.py and src/app/app.py: any integers
PageLimitInputs ==
    {[page |-> 1, limit |-> 25], [page |-> 0, limit |-> 101], [page |-> -1, limit |-> 0]}

\* SearchRequest of src/app.py: page >= 1 and 1 <= page_size <= 100 are validated
\* before the handler runs
ValidatedPageInputs == {[page |-> 1, limit |-> 10]}

HandlerFilterInputs ==
    {NoFilters, Filters(Some(<<"a">>), Some(<<"d">>), None, None)}

MainFilterInputs ==
    {SearchFilters(None, None, None, None, None),
     SearchFilters(Some(<<"a">>), None, None, None, None)}

\* SearchRequest of src/app_до_грока.py (23-26): a query string and any integers
GrokRequestInputs ==
    {[query |-> <<"*">>, page |-> 1, limit |-> 10],
     [query |-> <<"a">>, page |-> 0, limit |-> 101],
     [query |-> <<"*">>, page |-> -1, limit |-> 0]}

Init ==
    /\ rev \in {"backup", "impl", "main", "grok"}
    /\ pc = "idle"
    /\ IdleQuery
    /\ IdleExtract
    /\ IdleService
    /\ request = [page |-> 0, limit |-> 0]
    /\ payload = NoPayload
    /\ calls = 0
    /\ upstream = NoUpstream
    /\ response = NoResponse
    /\ lax \in BOOLEAN

\* src/backup/app.py search_notices, lines 123-180: up to the awaited call
SearchBackup ==
    /\ pc = "idle"
    /\ rev = "backup"
    /\ \E f \in HandlerFilterInputs, r \in PageLimitInputs :
        /\ filters' = f
        /\ request' = r
        /\ query_terms' = BackupQueryTerms(f)
        /\ expert_query' = BackupExpertQuery(BackupQueryTerms(f))
        /\ payload' = [query |-> BackupExpertQuery(BackupQueryTerms(f)),
                       page |-> Max(1, r.page),
                       limit |-> Min(100, Max(1, r.limit))]
    /\ calls' = calls + 1
    /\ pc' = "awaiting"
    /\ UNCHANGED <<serviceVars, rev, extractVars, upstream, response, lax>>

\* src/app/app.py search_notices_impl, lines 92-123
SearchImpl ==
    /\ pc = "idle"
    /\ rev = "impl"
    /\ \E f \in HandlerFilterInputs, r \in PageLimitInputs :
        /\ filters' = f
        /\ request' = r
        /\ query_terms' = ImplQueryParts(f)
        /\ expert_query' = ImplExpertQuery(ImplQueryParts(f))
        /\ payload' = [query |-> ImplExpertQuery(ImplQueryParts(f)),
                       page |-> Max(1, r.page),
                       limit |-> Min(100, Max(1, r.limit))]
    /\ calls' = calls + 1
    /\ pc' = "awaiting"
    /\ UNCHANGED <<serviceVars, rev, extractVars, upstream, response, lax>>

\* src/app.py search, lines 347-363, and call_ted_api, lines 241-273
SearchMain ==
    /\ pc = "idle"
    /\ rev = "main"
    /\ \E f \in MainFilterInputs, r \in ValidatedPageInputs :
        /\ filters' = f
        /\ request' = r
        /\ query_terms' = build_ted_query_parts(f)
        /\ expert_query' = build_ted_query(f)
        /\ payload' = [query |-> build_ted_query(f), page |-> r.page, limit |-> r.limit]
    /\ calls' = calls + 1
    /\ pc' = "awaiting"
    /\ UNCHANGED <<serviceVars, rev, extractVars, upstream, response, lax>>

\* src/app_до_грока.py search, lines 198-204, and search_ted_api, lines 68-109
SearchGrok ==
    /\ pc = "idle"
    /\ rev = "grok"
    /\ \E r \in GrokRequestInputs :
        /\ request' = [page |-> r.page, limit |-> r.limit]
        /\ expert_query' = r.query
        /\ payload' = [query |-> r.query, page |-> r.page, limit |-> r.limit]
    /\ calls' = calls + 1
    /\ pc' = "awaiting"
    /\ UNCHANGED <<serviceVars, rev, filters, query_terms, extractVars, upstream,
                   response, lax>>

\* what the handler of revision r answers when the awaited call raises
\* httpx.RequestError: src/backup/app.py:225-227, src/app/app.py:154-156,
\* src/app.py:286-289, src/app_до_грока.py:123-125 and 211-213
TransportAnswer(r) == ErrorResponse(502)

UpstreamErrorAnswerMutBlankList(r, s) == Success(0, 0, << >>)

\* what the handler of revision r answers to a non-success status s of the
\* external API.  src/backup/app.py 184-194 and src/app/app.py 127-133 raise
\* HTTPException(status_code=s) inside the try block, where `except Exception`
\* (228-230, 157-159) catches it and raises HTTPException(500); src/app.py 277
\* raise_for_status() raises an httpx.HTTPError, answered with 502 (286-289);
\* src/app_до_грока.py 113-116 raises Exception, answered with 502 (211-213)
UpstreamErrorAnswer(r, s) ==
    IF r \in {"main", "grok"} THEN ErrorResponse(502) ELSE ErrorResponse(500)

TransportFailureMutRetry ==
    /\ pc = "awaiting"
    /\ calls < 3
    /\ calls' = calls + 1
    /\ UNCHANGED <<serviceVars, rev, pc, queryVars, extractVars, request, payload,
                   upstream, response, lax>>

\* the awaited call raises httpx.RequestError (connection refused, timeout)
TransportFailure ==
    /\ pc = "awaiting"
    /\ upstream' = [kind |-> "transport", status |-> 0, body |-> Null]
    /\ response' = TransportAnswer(rev)
    /\ pc' = "done"
    /\ UNCHANGED <<serviceVars, rev, queryVars, extractVars, request, payload, calls, lax>>

\* the external API answers with a non-success status s
UpstreamError ==
    /\ pc = "awaiting"
    /\ \E s \in ErrorStatuses :
        /\ upstream' = [kind |-> "http", status |-> s, body |-> Null]
        /\ response' = UpstreamErrorAnswer(rev, s)
    /\ pc' = "done"
    /\ UNCHANGED <<serviceVars, rev, queryVars, extractVars, request, payload, calls, lax>>

\* the external API answers 200 with a JSON body
UpstreamOk ==
    /\ pc = "awaiting"
    /\ \E data \in Bodies :
        /\ upstream' = [kind |-> "http", status |-> 200, body |-> data]
        /\ response' =
            CASE rev = "backup" -> BackupNormalize(data, lax)
              [] rev = "impl" -> ImplNormalize(data, lax)
              [] rev = "main" -> MainNormalize(data, lax, request.limit)
              [] rev = "grok" -> GrokNormalize(data)
    /\ pc' = "done"
    /\ UNCHANGED <<serviceVars, rev, queryVars, extractVars, request, payload, calls, lax>>

---------------------------------------------------------------------------
(* The health handlers of src/app.py (health_check, 328-344) and of        *)
(* src/app_до_грока.py (health, 188-195)                                   *)

\* what the external API may answer to the health query
HealthUpstreams ==
    {[kind |-> "transport", status |-> 0, body |-> Null]}
    \cup {[kind |-> "http", status |-> s, body |-> Null] : s \in ErrorStatuses}
    \cup {[kind |-> "http", status |-> 200, body |-> b] :
            b \in {BodyOf(<<"results">>, << >>), List(<< >>),
                   BodyWithTotal(<<"results">>, <<RecPlain>>, 7)}}

\* call_ted_api (src/app.py:266-292) and search_ted_api (src/app_до_грока.py
\* 101-125) raise on a transport failure, on a non-success status, and when
\* data.get is applied to a body that is no object
CallRaises(up) ==
    \/ up.kind = "transport"
    \/ up.status # 200
    \/ up.body.tag # "dict"

HealthAnswerMutAlwaysHealthy(raised) ==
    [kind |-> "body", status |-> "healthy", ted_api_available |-> TRUE]

\* src/app.py:340-344 and src/app_до_грока.py:193-195: the except clause
\* swallows the exception and the handler returns a body either way
HealthAnswer(raised) ==
    [kind |-> "body",
     status |-> IF raised THEN "degraded" ELSE "healthy",
     ted_api_available |-> ~raised]

\* up to the awaited call: call_ted_api(query="*", page=1, page_size=1),
\* search_ted_api("*", 1, 1)
HealthCheck ==
    /\ pc = "idle"
    /\ rev \in {"main", "grok"}
    /\ payload' = [query |-> <<"*">>, page |-> 1, limit |-> 1]
    /\ calls' = calls + 1
    /\ pc' = "checking"
    /\ UNCHANGED <<rev, queryVars, extractVars, request, upstream, response, lax,
                   processing_tasks, reply, http_request, handled_by, health>>

\* the call returns or raises, and the handler answers
HealthReturn ==
    /\ pc = "checking"
    /\ \E up \in HealthUpstreams :
        /\ upstream' = up
        /\ health' = HealthAnswer(CallRaises(up))
    /\ pc' = "checked"
    /\ UNCHANGED <<rev, queryVars, extractVars, request, payload, calls, response,
                   lax, processing_tasks, reply, http_request, handled_by>>

Next ==
    \/ SearchBackup
    \/ SearchImpl
    \/ SearchMain
    \/ SearchGrok
    \/ TransportFailure
    \/ UpstreamError
    \/ UpstreamOk
    \/ HealthCheck
    \/ HealthReturn

Spec == Init /\ [][Next]_vars

---------------------------------------------------------------------------
(* The task routes of src/app.py (lines 383-450) next to its search route: *)
(* a sequence of requests to one process                                   *)

\* ProcessingTask (src/app.py:114-120), validated before the handler runs;
\* status is "pending" unless the client sends one
TaskIds == {"t1", "t2"}

TaskInputs ==
    {[task_id |-> "t1", task_type |-> "translate", status |-> "pending"],
     [task_id |-> "t1", task_type |-> "export", status |-> "completed"],
     [task_id |-> "t2", task_type |-> "export", status |-> "failed"]}

\* processing_tasks[task.task_id] = task
Put(tasks, id, task) ==
    [k \in (DOMAIN tasks) \cup {id} |-> IF k = id THEN task ELSE tasks[k]]

\* sum(1 for t in processing_tasks.values() if t.status == st)
CountStatus(tasks, st) == Cardinality({k \in DOMAIN tasks : tasks[k].status = st})

\* src/app.py:439-450; success_rate is kept as the integer part of the float
Statistics(tasks) ==
    LET total == Cardinality(DOMAIN tasks)
        completed == CountStatus(tasks, "completed")
    IN  [total_tasks |-> total,
         completed |-> completed,
         failed |-> CountStatus(tasks, "failed"),
         pending |-> CountStatus(tasks, "pending"),
         success_rate |-> IF total > 0 THEN (completed * 100) \div total ELSE 0]

InitTasks ==
    /\ rev = "main"
    /\ pc = "idle"
    /\ IdleQuery
    /\ IdleExtract
    /\ IdleService
    /\ request = [page |-> 0, limit |-> 0]
    /\ payload = NoPayload
    /\ calls = 0
    /\ upstream = NoUpstream
    /\ response = NoResponse
    /\ lax \in BOOLEAN

\* POST /process, src/app.py:383-395
create_processing_task ==
    /\ pc = "idle"
    /\ rev = "main"
    /\ \E task \in TaskInputs :
        /\ processing_tasks' = Put(processing_tasks, task.task_id, task)
        /\ reply' = TaskReply(202, "accepted", task.task_id, "accepted", "", NoStatistics)
    /\ pc' = "replied"
    /\ UNCHANGED <<rev, queryVars, extractVars, handlerVars, health, http_request,
                   handled_by>>

\* GET /process/{task_id}, src/app.py:398-412
get_task_status ==
    /\ pc = "idle"
    /\ rev = "main"
    /\ \E task_id \in TaskIds :
        reply' = IF task_id \notin DOMAIN processing_tasks
                 THEN TaskReply(404, "error", task_id, "", "", NoStatistics)
                 ELSE TaskReply(200, "task", task_id, processing_tasks[task_id].status,
                                processing_tasks[task_id].task_type, NoStatistics)
    /\ pc' = "replied"
    /\ UNCHANGED <<rev, queryVars, extractVars, handlerVars, health, processing_tasks,
                   http_request, handled_by>>

get_statistics_mut_clears ==
    /\ pc = "idle"
    /\ rev = "main"
    /\ reply' = TaskReply(200, "statistics", "", "", "", Statistics(processing_tasks))
    /\ processing_tasks' = NoTasks
    /\ pc' = "replied"
    /\ UNCHANGED <<rev, queryVars, extractVars, handlerVars, health, http_request,
                   handled_by>>

\* GET /statistics, src/app.py:435-450
get_statistics ==
    /\ pc = "idle"
    /\ rev = "main"
    /\ reply' = TaskReply(200, "statistics", "", "", "", Statistics(processing_tasks))
    /\ pc' = "replied"
    /\ UNCHANGED <<rev, queryVars, extractVars, handlerVars, health, processing_tasks,
                   http_request, handled_by>>

\* the handler has returned and the process waits for the next request: the
\* locals of the handler are gone, the module-level dictionary stays
NextRequest ==
    /\ pc \in {"done", "replied"}
    /\ pc' = "idle"
    /\ filters' = NoFilters
    /\ query_terms' = << >>
    /\ expert_query' = << >>
    /\ request' = [page |-> 0, limit |-> 0]
    /\ payload' = NoPayload
    /\ calls' = 0
    /\ upstream' = NoUpstream
    /\ response' = NoResponse
    /\ reply' = NoReply
    /\ UNCHANGED <<rev, extractVars, lax, health, processing_tasks, http_request,
                   handled_by>>

NextTasks ==
    \/ create_processing_task
    \/ get_task_status
    \/ get_statistics
    \/ SearchMain
    \/ TransportFailure
    \/ UpstreamError
    \/ UpstreamOk
    \/ NextRequest

SpecTasks == InitTasks /\ [][NextTasks]_vars

---------------------------------------------------------------------------
(* The route tables: the order in which each revision registers its routes *)
(* and mounts, and the dispatch of a request to the first full match.  A    *)
(* path is the sequence of its segments: "/" is << >>, "/process/t1" is     *)
(* <<"process", "t1">>.                                                     *)

\* @app.get(path) / @app.post(path): a route of one method
Route(method, pattern, name) ==
    [kind |-> "route", methods |-> {method}, pattern |-> pattern, name |-> name]

\* app.mount(prefix, StaticFiles(...)): every method, every path below prefix
Mount(prefix, name) ==
    [kind |-> "mount", methods |-> {}, pattern |-> prefix, name |-> name]

\* a path parameter of one segment ("{task_id}") and the rest-of-path
\* parameter ("{path:path}")
SegmentParams == {"{task_id}", "{notice_id}"}

RestParam == "{path:path}"

\* src/app.py: FastAPI(docs_url="/api/docs") at construction (136-142), then
\* lines 156, 299, 308, 328, 347, 383, 397, 414, 435
MainRoutes ==
    <<Route("GET", <<"api", "docs">>, "swagger_ui_html"),
      Mount(<<"static">>, "static"),
      Route("GET", << >>, "root"),
      Route("GET", <<RestParam>>, "serve_static"),
      Route("GET", <<"health">>, "health_check"),
      Route("POST", <<"search">>, "search"),
      Route("POST", <<"process">>, "create_processing_task"),
      Route("GET", <<"process", "{task_id}">>, "get_task_status"),
      Route("GET", <<"notice", "{notice_id}">>, "get_notice_details"),
      Route("GET", <<"statistics">>, "get_statistics")>>

\* src/app_до_грока.py: lines 46, 60, 164, 173, 188, 198
GrokRoutes ==
    <<Route("GET", <<"docs">>, "swagger_ui_html"),
      Mount(<<"static">>, "static"),
      Route("GET", << >>, "root"),
      Route("GET", <<RestParam>>, "serve_static"),
      Route("GET", <<"health">>, "health"),
      Route("POST", <<"search">>, "search")>>

\* src/app/app.py: lines 19, 30, 59, 64, 69, 74
ImplRoutes ==
    <<Route("GET", <<"docs">>, "swagger_ui_html"),
      Mount(<< >>, "static"),
      Route("GET", <<"health">>, "health"),
      Route("GET", << >>, "read_root"),
      Route("POST", <<"search">>, "search_notices_json"),
      Route("POST", <<"search">>, "search_notices_form")>>

\* src/backup/app.py: lines 18, 69, 74, 122, 233
BackupRoutes ==
    <<Route("GET", <<"docs">>, "swagger_ui_html"),
      Route("GET", <<"health">>, "health"),
      Route("GET", << >>, "read_root"),
      Route("POST", <<"search">>, "search_notices"),
      Mount(<<"static">>, "static")>>

RouteTable(r) ==
    CASE r = "main" -> MainRoutes
      [] r = "grok" -> GrokRoutes
      [] r = "impl" -> ImplRoutes
      [] r = "backup" -> BackupRoutes

\* the path regex of a route: literal segments, "[^/]+" for a parameter,
\* ".*" for the rest-of-path parameter
RECURSIVE PathMatches(_, _)
PathMatches(pattern, path) ==
    IF pattern = << >> THEN path = << >>
    ELSE IF Head(pattern) = RestParam THEN TRUE
    ELSE IF path = << >> THEN FALSE
    ELSE IF Head(pattern) \in SegmentParams THEN PathMatches(Tail(pattern), Tail(path))
    ELSE Head(pattern) = Head(path) /\ PathMatches(Tail(pattern), Tail(path))

\* the path regex of a mount: prefix + "/{path:path}"
MountMatches(prefix, path) ==
    /\ Len(path) >= Len(prefix)
    /\ SubSeq(path, 1, Len(prefix)) = prefix
    /\ prefix = << >> \/ Len(path) > Len(prefix)

\* Route.matches / Mount.matches: "full", "partial" (the path matches, the
\* method does not) or "none"
Match(route, req) ==
    IF route.kind = "mount"
    THEN IF MountMatches(route.pattern, req.path) THEN "full" ELSE "none"
    ELSE IF ~PathMatches(route.pattern, req.path) THEN "none"
    ELSE IF req.method \in route.methods THEN "full"
    ELSE "partial"

\* Router.app: the first full match handles the request; without one the
\* first partial match answers 405; without any the answer is 404
Dispatch(table, req) ==
    LET full == {i \in 1..Len(table) : Match(table[i], req) = "full"}
        partial == {i \in 1..Len(table) : Match(table[i], req) = "partial"}
    IN  IF full # {}
        THEN LET i == CHOOSE k \in full : \A j \in full : k <= j
             IN  [name |-> table[i].name, outcome |-> "handled", index |-> i]
        ELSE IF partial # {}
        THEN LET i == CHOOSE k \in partial : \A j \in partial : k <= j
             IN  [name |-> table[i].name, outcome |-> "method_not_allowed", index |-> i]
        ELSE [name |-> "", outcome |-> "not_found", index |-> 0]

Methods == {"GET", "POST", "DELETE"}

Paths ==
    {<< >>, <<"health">>, <<"statistics">>, <<"search">>, <<"process">>,
     <<"process", "t1">>, <<"process", "t2">>, <<"notice", "n1">>,
     <<"static", "style.css">>, <<"docs">>, <<"api", "docs">>, <<"index.html">>,
     <<"other", "page">>}

InitRoute ==
    /\ rev \in {"backup", "impl", "main", "grok"}
    /\ pc = "idle"
    /\ IdleQuery
    /\ IdleExtract
    /\ IdleHandler
    /\ IdleService

\* one request is routed
DispatchRequest ==
    /\ pc = "idle"
    /\ \E m \in Methods, p \in Paths :
        /\ http_request' = [method |-> m, path |-> p]
        /\ handled_by' = Dispatch(RouteTable(rev), [method |-> m, path |-> p])
    /\ pc' = "dispatched"
    /\ UNCHANGED <<rev, queryVars, extractVars, handlerVars, health, processing_tasks,
                   reply>>

NextRoute == DispatchRequest

SpecRoute == InitRoute /\ [][NextRoute]_vars

---------------------------------------------------------------------------
(* Properties of the query builders                                        *)

Built(r) == pc = "built" /\ rev = r

OnlyCharsOf(o, A) == o.none \/ \A i \in 1..Len(o.s) : o.s[i] \in A

\* a filter set from which no clause can come: absent, or every field null,
\* empty, commas and blanks only (country), dashes only (dates)
NoClauseInput(f) ==
    \/ ~f.present
    \/ /\ f.text.none \/ f.text.s = << >>
       /\ OnlyCharsOf(f.country, {",", " "})
       /\ OnlyCharsOf(f.publication_date_from, {"-"})
       /\ OnlyCharsOf(f.publication_date_to, {"-"})

\* C1: in src/backup/app.py, a filter set from which zero clauses are emitted
\* (absent, null or empty fields, a country of commas and blanks, a date of
\* dashes) gives exactly the query (publication-date >= 19930101), and no
\* filter set gives an empty query or the wildcard *.
C1_FallbackBroadHistory ==
    Built("backup") =>
        /\ NoClauseInput(filters) =>
              expert_query = <<"(", "publication-date", " ", ">=", " ", "19930101", ")">>
        /\ expert_query # << >>
        /\ expert_query # <<"*">>

C1_Witness ==
    /\ Built("backup")
    /\ filters.present
    /\ filters.country = Some(<<",", " ">>)
    /\ filters.publication_date_from = Some(<<"-">>)
    /\ expert_query = <<"(", "publication-date", " ", ">=", " ", "19930101", ")">>

\* the comma-free segments of s, by the positions of its commas
CommaCuts(s) == {0, Len(s) + 1} \cup {i \in 1..Len(s) : s[i] = ","}

SetMin(S) == CHOOSE x \in S : \A y \in S : x <= y

SetMax(S) == CHOOSE x \in S : \A y \in S : x >= y

\* the segment that starts after cut a, without its outer blanks, in capitals
TrimmedSegment(s, a) ==
    LET b == SetMin({c \in CommaCuts(s) : c > a})
        inner == {i \in (a + 1)..(b - 1) : s[i] # " "}
    IN  IF inner = {} THEN << >>
        ELSE [i \in 1..(SetMax(inner) - SetMin(inner) + 1) |->
                LET c == s[SetMin(inner) + i - 1]
                IN  IF c = "d" THEN "D" ELSE c]

\* the cuts that start a non-blank segment, and the codes in input order
CodeStarts(s) ==
    {a \in CommaCuts(s) : a <= Len(s) /\ TrimmedSegment(s, a) # << >>}

ExpectedCodes(s) ==
    LET starts == CodeStarts(s)
        n == Cardinality(starts)
        ord == CHOOSE q \in [1..n -> starts] : \A i, j \in 1..n : i < j => q[i] < q[j]
    IN  [i \in 1..n |-> TrimmedSegment(s, ord[i])]

RECURSIVE OrChain(_)
OrChain(codes) ==
    IF Len(codes) = 1
    THEN <<"(", "buyer-country", " ", "=", " ">> \o codes[1] \o <<")">>
    ELSE OrChain(SubSeq(codes, 1, Len(codes) - 1)) \o <<" ", "OR", " ">>
            \o <<"(", "buyer-country", " ", "=", " ">> \o codes[Len(codes)] \o <<")">>

ExpectedCountryClause(codes) ==
    IF Len(codes) = 1 THEN OrChain(codes) ELSE <<"(">> \o OrChain(codes) \o <<")">>

MentionsCountry(term) == \E i \in 1..Len(term) : term[i] = "buyer-country"

TrimBlanks(s) ==
    LET inner == {i \in 1..Len(s) : s[i] # " "}
    IN  IF inner = {} THEN << >> ELSE SubSeq(s, SetMin(inner), SetMax(inner))

Contains(s, sub) ==
    \E i \in 0..(Len(s) - Len(sub)) : SubSeq(s, i + 1, i + Len(sub)) = sub

HasSpace(s) == \E i \in 1..Len(s) : s[i] = " "

HasText == pc = "built" /\ filters.present /\ Truthy(filters.text)

RECURSIVE TopScan(_, _, _, _, _, _)
TopScan(q, i, depth, inq, cur, acc) ==
    IF i > Len(q) THEN Append(acc, cur)
    ELSE IF depth = 0 /\ ~inq /\ i + 2 <= Len(q)
            /\ SubSeq(q, i, i + 2) = <<" ", "AND", " ">>
    THEN TopScan(q, i + 3, 0, FALSE, << >>, Append(acc, cur))
    ELSE LET c == q[i]
         IN  TopScan(q, i + 1,
                     IF inq THEN depth
                     ELSE IF c = "(" THEN depth + 1
                     ELSE IF c = ")" THEN depth - 1
                     ELSE depth,
                     IF c = Q THEN ~inq ELSE inq,
                     Append(cur, c), acc)

TopLevelSplit(q) == TopScan(q, 1, 0, FALSE, << >>, << >>)

RECURSIVE AfterParens(_)
AfterParens(s) ==
    IF s # << >> /\ Head(s) = "(" THEN AfterParens(Tail(s)) ELSE s

\* which predicate a parenthesized clause states
ClauseKind(piece) ==
    LET body == AfterParens(piece)
    IN  IF piece = << >> \/ Head(piece) # "(" \/ piece[Len(piece)] # ")"
           \/ body = << >>
        THEN "other"
        ELSE IF Head(body) = "notice-title" THEN "text"
        ELSE IF Head(body) = "buyer-country" THEN "country"
        ELSE IF Len(body) >= 3 /\ Head(body) = "publication-date" /\ body[3] = ">="
        THEN "from"
        ELSE IF Len(body) >= 3 /\ Head(body) = "publication-date" /\ body[3] = "<="
        THEN "to"
        ELSE "other"

\* the populated filters, in the order text, country, date-from, date-to
PopulatedKinds(f) ==
    IF ~f.present THEN << >>
    ELSE (IF Truthy(f.text) THEN <<"text">> ELSE << >>)
      \o (IF ~f.country.none /\ ExpectedCodes(f.country.s) # << >>
          THEN <<"country">> ELSE << >>)
      \o (IF ~OnlyCharsOf(f.publication_date_from, {"-"}) THEN <<"from">> ELSE << >>)
      \o (IF ~OnlyCharsOf(f.publication_date_to, {"-"}) THEN <<"to">> ELSE << >>)

\* C4: the query of search_notices is the AND-join of one parenthesized clause
\* per populated filter, in the order text, country, date-from, date-to:
\* splitting it at its top-level AND operators recovers exactly the populated
\* predicates, whatever the filter values are.
C4_SplitRecoversPredicates ==
    (Built("backup") /\ PopulatedKinds(filters) # << >>) =>
        LET pieces == TopLevelSplit(expert_query)
        IN  [i \in 1..Len(pieces) |-> ClauseKind(pieces[i])] = PopulatedKinds(filters)

---------------------------------------------------------------------------
(* Properties of extract_multilang_field                                   *)

Preference == <<"eng", "deu", "fra">>

\* the value of the first preferred language that is a key of d, or else the
\* first entry of d
SelectedEntry(d) ==
    LET present == {j \in 1..Len(Preference) : HasKey(d, Preference[j])}
    IN  IF present # {} THEN Lookup(d, Preference[SetMin(present)]) ELSE d.items[1]

\* what one entry gives: the string, the first element of a non-empty list,
\* the default otherwise
FirstText(v, dflt) ==
    IF v.tag = "str" THEN v
    ELSE IF v.tag = "list" /\ v.items # << >> THEN v.items[1]
    ELSE Str(dflt)

Extracted(t) == pc = "returned" /\ field_value.tag = t

\* C5 as stated: for a mapping the value of the first preferred language
\* (eng, deu, fra) that is a key is selected, the first entry only when no
\* preferred language is a key, and the selected value alone gives the result.
C5_PresentPreferredSelected ==
    (Extracted("dict") /\ field_value.keys # << >>) =>
        result = FirstText(SelectedEntry(field_value), default)

UsableEntry(v) == v.tag = "str" \/ (v.tag = "list" /\ v.items # << >>)

\* the value of the first preferred language that is a key with a usable
\* value, or else the first usable value in iteration order
UsableSelected(d) ==
    LET pref == {j \in 1..Len(Preference) :
                    HasKey(d, Preference[j]) /\ UsableEntry(Lookup(d, Preference[j]))}
        any == {i \in 1..Len(d.keys) : UsableEntry(d.items[i])}
    IN  IF pref # {} THEN <<Lookup(d, Preference[SetMin(pref)])>>
        ELSE IF any # {} THEN <<d.items[SetMin(any)]>>
        ELSE << >>

\* C5 as amended: for a mapping, extract_multilang_field selects the value of
\* the first language of (eng, deu, fra) that is a key and whose value is a
\* string or a non-empty list; a preferred language whose value is an empty
\* list, null, a number or a mapping is passed over in favour of a later one;
\* with no such preferred language the first string or non-empty list in
\* iteration order is selected; the result is the selected string or the
\* first element of the selected list, and the default when nothing is
\* selected.
C5_FirstUsablePreferredSelected ==
    Extracted("dict") =>
        LET sel == UsableSelected(field_value)
        IN  IF sel = << >> THEN result = Str(default)
            ELSE result = (IF sel[1].tag = "str" THEN sel[1] ELSE sel[1].items[1])

C5_Witness ==
    /\ pc = "returned"
    /\ field_value = Dict(<<"fra", "eng">>,
                          <<List(<<Str("Reparation")>>), List(<<Str("Road repair")>>)>>)
    /\ result = Str("Road repair")

\* the recursive text-extraction rule
RECURSIVE TextRule(_, _)
TextRule(v, dflt) ==
    CASE v.tag = "str" -> v
      [] v.tag = "num" -> Str(ToString(v.n))
      [] v.tag = "null" -> Str(dflt)
      [] v.tag = "list" ->
            IF v.items = << >> THEN Str(dflt) ELSE TextRule(v.items[1], dflt)
      [] v.tag = "dict" ->
            IF v.keys = << >> THEN Str(dflt) ELSE TextRule(SelectedEntry(v), dflt)

\* C6: extract_multilang_field agrees with the recursive rule on every raw
\* value: a string as it is, a number as its text, a non-empty list as the
\* rule on its first element, null or an empty list or mapping as the
\* default; the result is always a plain string.
C6_AgreesWithRecursiveRule ==
    pc = "returned" =>
        /\ result.tag = "str"
        /\ result = TextRule(field_value, default)

---------------------------------------------------------------------------
(* Properties of the normalisation                                         *)

\* the handler has answered a 200 answer of the external API whose body is an object
Answered == pc = "done" /\ upstream.kind = "http" /\ upstream.status = 200
                /\ upstream.body.tag = "dict"

\* C7: a publication date with a trailing timezone offset ("2025-09-30+02:00")
\* is normalized to its calendar-date prefix ("2025-09-30"): no normalized
\* date is longer than the ten characters of the date portion.
C7_DateTruncatedToCalendarDate ==
    (Answered /\ response.status = 200) =>
        \A i \in 1..Len(response.notices) :
            LET d == response.notices[i].publication_date
            IN  d.tag = "str" => Len(d.s) <= 10

\* the record list under whichever of the two keys is present
RecordsUnderEitherKey(data) ==
    IF HasKey(data, "notices") THEN Lookup(data, "notices").items
    ELSE IF HasKey(data, "results") THEN Lookup(data, "results").items
    ELSE << >>

\* C8: the record list is read from whichever of the keys 'notices' and
\* 'results' is present, and is empty only if neither is: a body with k
\* (well-formed) records under either key gives k normalized records.
C8_RecordsReadFromEitherKey ==
    (Answered /\ \A i \in 1..Len(RecordsUnderEitherKey(upstream.body)) :
                    RecordsUnderEitherKey(upstream.body)[i] = RecPlain) =>
        /\ response.status = 200
        /\ Len(response.notices) = Len(RecordsUnderEitherKey(upstream.body))

\* C9: the total of the search response is the reported match count of the
\* body when it has one, and the length of the returned record list when it
\* has none.
C9_TotalIsReportedCountOrLength ==
    (Answered /\ response.status = 200) =>
        IF HasKey(upstream.body, "total")
        THEN response.total = Lookup(upstream.body, "total").n
        ELSE response.total = Len(response.notices)

\* the record list under the key the running revision reads
RecordsOfRevision(data) ==
    IF rev = "backup" THEN GetOr(data, "notices", List(<< >>)).items
    ELSE GetOr(data, "results", List(<< >>)).items

\* C10: no malformed, missing or variant-shaped field of one record, and no
\* record that is not an object, fails the batch or drops a record: every
\* record of the batch is returned in a successful response.
C10_NoRecordFailsOrLeavesTheBatch ==
    Answered =>
        /\ response.status = 200
        /\ Len(response.notices) = Len(RecordsOfRevision(upstream.body))

\* what the loop of the running revision makes of one record: << >> when the
\* construction of its notice raises
NoticeOfRecord(item) ==
    CASE rev = "backup" -> BackupNotice(item, lax)
      [] rev = "impl" -> ImplNotice(item, lax)
      [] rev = "main" -> MainNotice(item, lax)
      [] rev = "grok" -> GrokNotice(item)

\* the indices of the records whose parsing does not raise
KeptRecords(recs) == {i \in 1..Len(recs) : NoticeOfRecord(recs[i]) # << >>}

\* C11: the notices of a search response are an order-preserving image of
\* the raw record list: each notice is derived from exactly one record, the
\* relative order of the records is kept, a record whose parsing raises is
\* skipped (parse_ted_response, parse_notices) while the next ones are still
\* processed, and zero records give an empty notice list.
C11_OrderPreservingImage ==
    Answered =>
        LET recs == RecordsOfRevision(upstream.body)
            out == response.notices
        IN  /\ response.status = 200 =>
                /\ Len(out) = Cardinality(KeptRecords(recs))
                /\ \E f \in [1..Len(out) -> KeptRecords(recs)] :
                    /\ \A i, j \in 1..Len(out) : i < j => f[i] < f[j]
                    /\ \A i \in 1..Len(out) : out[i] = NoticeOfRecord(recs[f[i]])[1]
                /\ recs = << >> => out = << >>
            /\ (rev \in {"main", "grok"} /\ TotalOrZero(upstream.body).tag = "num") =>
                response.status = 200

\* a record that raises is followed by one that is parsed and returned
C11_Witness ==
    /\ Answered
    /\ rev = "main"
    /\ response.status = 200
    /\ RecordsOfRevision(upstream.body) = <<RecNotObject, RecMissing>>
    /\ Len(response.notices) = 1
    /\ response.notices[1].publication_number = Str("3-2025")

---------------------------------------------------------------------------
(* Properties of the outbound call and of the error answers                *)

\* the search handler has issued its outbound request
Called == pc \in {"awaiting", "done"}

\* C12: for every inbound page number and page size (zero, negative and above
\* 100 included) that reaches the search handler, the outbound request
\* carries a page >= 1 and a page size within [1, 100].
C12_OutboundPageAndSizeClamped ==
    Called => /\ payload.page >= 1
              /\ payload.limit >= 1
              /\ payload.limit <= 100

\* C13: one inbound search request triggers exactly one outbound call: while
\* the call is awaited and after the handler has answered (with a success,
\* a non-success status, zero results or a transport failure) the external
\* API has been called once, never re-queried or retried.
C13_ExactlyOneOutboundCall ==
    /\ pc = "idle" => calls = 0
    /\ Called => calls = 1

\* the call failed at transport level and was not repeated
C13_Witness ==
    /\ pc = "done"
    /\ upstream.kind = "transport"
    /\ calls = 1

\* the external API answered the search with a non-success status
UpstreamFailed == pc = "done" /\ upstream.kind = "http" /\ upstream.status # 200

\* C14: when the external API answers with a non-success status s, the
\* failure that reaches the inbound caller carries s as its status code.
C14_UpstreamStatusReachesCaller ==
    UpstreamFailed => response.status = upstream.status

\* C15: a transport failure and an upstream non-success status are two
\* distinguishable conditions: the error status answered for an upstream
\* 4xx/5xx is never the one the same handler answers for a transport failure.
C15_TransportAndUpstreamDistinct ==
    UpstreamFailed => response.status # TransportAnswer(rev).status

\* C16: a failed search is never reported as a success: a successful search
\* response is returned only if the outbound call completed with a success
\* status; after a non-success status or a transport failure the handler
\* ends in an error response, never in an empty or fabricated result list.
C16_FailureNeverReportedAsSuccess ==
    /\ response.status = 200 => upstream.kind = "http" /\ upstream.status = 200
    /\ (pc = "done" /\ (upstream.kind = "transport" \/ upstream.status # 200)) =>
            /\ response.status >= 400
            /\ response.notices = << >>

\* the external API answered 404 and the handler answered with an error
C16_Witness ==
    /\ UpstreamFailed
    /\ upstream.status = 404
    /\ response.status \in {500, 502}

---------------------------------------------------------------------------
(* Properties of the health handlers                                       *)

\* the outbound call of the health handler completed with a usable answer
HealthCallSucceeded ==
    /\ upstream.kind = "http"
    /\ upstream.status = 200
    /\ upstream.body.tag = "dict"

\* C17: the health handlers of src/app.py and src/app_до_грока.py issue one
\* minimal-query outbound call and always return a normal response: healthy
\* exactly when the call succeeded, degraded when it failed for any reason
\* (upstream status, transport failure, any other exception), and they
\* never propagate an error.
C17_HealthReportsCallOutcome ==
    /\ pc = "checking" => calls = 1 /\ payload = [query |-> <<"*">>, page |-> 1, limit |-> 1]
    /\ pc = "checked" =>
        /\ calls = 1
        /\ health.kind = "body"
        /\ health.status = (IF HealthCallSucceeded THEN "healthy" ELSE "degraded")
        /\ health.ted_api_available = HealthCallSucceeded

\* the health call failed at transport level and the answer says degraded
C17_Witness ==
    /\ pc = "checked"
    /\ upstream.kind = "transport"
    /\ health.kind = "body"
    /\ health.status = "degraded"

---------------------------------------------------------------------------
(* Properties of the state that outlives a request                         *)

TaskRepliesReadStore ==
    pc = "replied" =>
        /\ reply.kind = "task" =>
            /\ reply.task_id \in DOMAIN processing_tasks
            /\ reply.task_status = processing_tasks[reply.task_id].status
            /\ reply.task_type = processing_tasks[reply.task_id].task_type
        /\ reply.kind = "error" => reply.task_id \notin DOMAIN processing_tasks
        /\ reply.kind = "statistics" =>
            reply.statistics.total_tasks = Cardinality(DOMAIN processing_tasks)

\* the search answer is a function of the request and of the upstream answer
SearchAnswerIgnoresStore ==
    Answered => response = MainNormalize(upstream.body, lax, request.limit)

\* the dictionary changes only in POST /process, by the entry of the posted
\* task; entries are never removed
OnlyProcessWritesStore ==
    /\ (DOMAIN processing_tasks) \subseteq (DOMAIN processing_tasks')
    /\ processing_tasks' # processing_tasks =>
        /\ pc = "idle"
        /\ reply'.status = 202
        /\ \E task \in TaskInputs :
            /\ reply'.task_id = task.task_id
            /\ processing_tasks' = Put(processing_tasks, task.task_id, task)

---------------------------------------------------------------------------
(* Properties of the route tables                                          *)

\* a handler declared for one path, as opposed to the catch-all route
DeclaredFor(route) == route.kind = "route" /\ route.pattern # <<RestParam>>

\* route number i of the running revision is selected by some request
Selectable(i) ==
    \E m \in Methods, p \in Paths :
        LET d == Dispatch(RouteTable(rev), [method |-> m, path |-> p])
        IN  d.outcome = "handled" /\ d.index = i

\* C19: every declared route handler is reachable under first-match
\* dispatch: a request whose method and path are those of a declared route
\* (GET /health, GET /statistics, GET /process/{task_id}, ...) is handled by
\* a handler declared for that path, never by the catch-all route or the
\* static mount registered before it, and each of two handlers registered
\* for the same method and path can be selected by some request.
C19_EveryDeclaredHandlerReachable ==
    pc = "dispatched" =>
        /\ \A i \in 1..Len(RouteTable(rev)) :
            (DeclaredFor(RouteTable(rev)[i])
                /\ Match(RouteTable(rev)[i], http_request) = "full") =>
                    /\ handled_by.outcome = "handled"
                    /\ DeclaredFor(RouteTable(rev)[handled_by.index])
        /\ \A i \in 1..Len(RouteTable(rev)) :
            DeclaredFor(RouteTable(rev)[i]) => Selectable(i)

=============================================================================
